---- MODULE Spec2Model ----
(***************************************************************************)
(* A model of the godis core: the keyspace commands (database/keys.go),    *)
(* the RESP stream parser (redis/parser/parser.go) and the connection      *)
(* handler (redis/server/server.go).                                       *)
(*                                                                         *)
(* Byte strings are sequences of one-character strings.  Time is counted   *)
(* in microseconds.                                                        *)
(***************************************************************************)
EXTENDS Integers, Sequences, FiniteSets, TLC

\* ------------------------------------------------------------------------
\* Bounds
\* ------------------------------------------------------------------------
MaxClock == 1
AofCap == 1
MaxDelKeys == 2
MaxArgs == 2
MaxMsgs == 2
MaxConns == 1
MaxCmds == 2

\* ------------------------------------------------------------------------
\* Program constants
\* ------------------------------------------------------------------------
Millisecond == 1000
Second == 1000 * Millisecond

\* ------------------------------------------------------------------------
\* Values
\* ------------------------------------------------------------------------
Keys == { <<"a">>, <<"b">> }

Nil == [kind |-> "nil"]
Entities == {[kind |-> "string", val |-> 1], [kind |-> "list", val |-> 2]}
\* a ttlMap entry is <<instant>>, or NoTTL when the key has none
NoTTL == <<>>

TickStep == Second \div 2
Now0 == TickStep
ClockValues == {Now0 + i * TickStep : i \in 0..MaxClock}

TimeArgs == { <<"1">>, <<"x">> }

Digits == {"0", "1", "2", "3", "4", "5", "6", "7", "8", "9"}
DigitVal(c) == CASE c = "0" -> 0 [] c = "1" -> 1 [] c = "2" -> 2 [] c = "3" -> 3
                 [] c = "4" -> 4 [] c = "5" -> 5 [] c = "6" -> 6 [] c = "7" -> 7
                 [] c = "8" -> 8 [] c = "9" -> 9

RECURSIVE DigitsVal(_)
DigitsVal(s) == IF s = <<>> THEN 0
                ELSE 10 * DigitsVal(SubSeq(s, 1, Len(s) - 1)) + DigitVal(s[Len(s)])

AllDigits(s) == s # <<>> /\ \A i \in 1..Len(s) : s[i] \in Digits

\* strconv.ParseInt(s, 10, 64): optional sign, then one or more digits
ParseInt(s) ==
    LET signed == s # <<>> /\ s[1] \in {"+", "-"}
        body == IF signed THEN Tail(s) ELSE s
    IN  IF AllDigits(body)
        THEN [ok |-> TRUE,
              val |-> IF signed /\ s[1] = "-" THEN 0 - DigitsVal(body) ELSE DigitsVal(body)]
        ELSE [ok |-> FALSE, val |-> 0]

\* strconv.ParseUint(s, 10, 32): one or more digits, no sign
ParseUint(s) ==
    IF AllDigits(s) THEN [ok |-> TRUE, val |-> DigitsVal(s)]
    ELSE [ok |-> FALSE, val |-> 0]

\* Go integer division truncates toward zero
GoDiv(a, b) == IF a >= 0 THEN a \div b ELSE 0 - ((0 - a) \div b)

\* ------------------------------------------------------------------------
\* Replies
\* ------------------------------------------------------------------------
MakeIntReply(n) == [t |-> "int", n |-> n]
MakeErrReply(s) == [t |-> "err", s |-> s]
MakeStatusReply(s) == [t |-> "status", s |-> s]
OkReply == [t |-> "ok"]
\* the keys of a KEYS reply come in map-iteration order; kept as a set
MakeKeysReply(ks) == [t |-> "multibulk", keys |-> ks]
NoReply == [t |-> "none"]

ErrNoSuchKey == "no such key"
ErrNotInt == "ERR value is not an integer or out of range"
ErrRenameArity == "ERR wrong number of arguments for 'rename' command"

\* ------------------------------------------------------------------------
\* The keyspace: db = [data, ttlMap, aof]
\* ------------------------------------------------------------------------
MakeDB(keys) == [data |-> [k \in keys |-> Nil],
                 ttlMap |-> [k \in keys |-> NoTTL],
                 aof |-> <<>>]
EmptyDB == MakeDB(Keys)

Remove(db, key) ==
    [db EXCEPT !.data[key] = Nil, !.ttlMap[key] = NoTTL]

IsExpired(db, key, now) ==
    db.ttlMap[key] # NoTTL /\ db.ttlMap[key][1] <= now

\* get(k): honours lazy expiration; returns the keyspace after the lookup too
GetEntity(db, key, now) ==
    IF IsExpired(db, key, now)
    THEN [db |-> Remove(db, key), entity |-> Nil, ok |-> FALSE]
    ELSE [db |-> db, entity |-> db.data[key], ok |-> db.data[key] # Nil]

PutEntity(db, key, entity) == [db EXCEPT !.data[key] = entity]

RECURSIVE Removes(_, _)
Removes(db, keys) ==
    IF keys = <<>> THEN [db |-> db, deleted |-> 0]
    ELSE LET rest == Removes(Remove(db, Head(keys)), Tail(keys))
         IN  [db |-> rest.db,
              deleted |-> rest.deleted + (IF db.data[Head(keys)] # Nil THEN 1 ELSE 0)]

Expire(db, key, expireTime) == [db EXCEPT !.ttlMap[key] = <<expireTime>>]

Persist(db, key) == [db EXCEPT !.ttlMap[key] = NoTTL]

Flush(db) == [db EXCEPT !.data = [k \in DOMAIN db.data |-> Nil],
                        !.ttlMap = [k \in DOMAIN db.ttlMap |-> NoTTL]]

addAof(db, line) == [db EXCEPT !.aof = Append(@, line)]

\* strconv.FormatInt(n, 10)
RECURSIVE FormatNat(_)
FormatNat(n) == IF n < 10 THEN <<CHOOSE c \in Digits : DigitVal(c) = n>>
                ELSE Append(FormatNat(n \div 10), CHOOSE c \in Digits : DigitVal(c) = n % 10)
FormatInt(n) == IF n < 0 THEN <<"-">> \o FormatNat(0 - n) ELSE FormatNat(n)

\* utils.ToCmdLine3(name, args...): one command line, the name then the arguments
ToCmdLine3(name, args) == [cmd |-> name, args |-> args]

\* aof.MakeExpireCmd: PEXPIREAT key <unix milliseconds>
MakeExpireCmd(key, expireAt) ==
    ToCmdLine3("pexpireat", <<key, FormatInt(GoDiv(expireAt, Millisecond))>>)

\* wildcard pattern match, for the patterns "*" and a literal key
IsMatch(pattern, key) == pattern = <<"*">> \/ pattern = key

\* ------------------------------------------------------------------------
\* Executors of the keyspace commands: (db, args, now) -> [db, reply]
\* ------------------------------------------------------------------------
\* DEL that logs the command whether or not it removed a key
execDel_AlwaysLogs(db, args, now) ==
    LET r == Removes(db, args)
    IN  [db |-> addAof(r.db, ToCmdLine3("del", args)),
         reply |-> MakeIntReply(r.deleted)]

execDel(db, args, now) ==
    LET r == Removes(db, args)
    IN  [db |-> IF r.deleted > 0 THEN addAof(r.db, ToCmdLine3("del", args)) ELSE r.db,
         reply |-> MakeIntReply(r.deleted)]

RECURSIVE execExistsFrom(_, _, _, _)
execExistsFrom(db, args, now, result) ==
    IF args = <<>> THEN [db |-> db, reply |-> MakeIntReply(result)]
    ELSE LET g == GetEntity(db, Head(args), now)
         IN  execExistsFrom(g.db, Tail(args), now, IF g.ok THEN result + 1 ELSE result)

execExists(db, args, now) == execExistsFrom(db, args, now, 0)

execFlushDB(db, args, now) ==
    [db |-> addAof(Flush(db), ToCmdLine3("flushdb", args)), reply |-> OkReply]

execType(db, args, now) ==
    LET g == GetEntity(db, args[1], now)
    IN  [db |-> g.db,
         reply |-> IF ~g.ok THEN MakeStatusReply("none") ELSE MakeStatusReply(g.entity.kind)]

\* prepareRename: (write keys, read keys)
prepareRename(args) == [write |-> {args[2]}, read |-> {args[1]}]

execRename(db, args, now) ==
    IF Len(args) # 2 THEN [db |-> db, reply |-> MakeErrReply(ErrRenameArity)]
    ELSE
    LET src == args[1]
        dest == args[2]
        g == GetEntity(db, src, now)
    IN  IF ~g.ok THEN [db |-> g.db, reply |-> MakeErrReply(ErrNoSuchKey)]
        ELSE LET rawTTL == g.db.ttlMap[src]
                 hasTTL == rawTTL # NoTTL
                 d1 == PutEntity(g.db, dest, g.entity)
                 d2 == Remove(d1, src)
                 d3 == IF hasTTL
                       THEN Expire(Persist(Persist(d2, src), dest), dest, rawTTL[1])
                       ELSE d2
             IN  [db |-> addAof(d3, ToCmdLine3("rename", args)), reply |-> OkReply]

\* execRenameNx without the early return for an existing destination
execRenameNx_NoDestCheck(db, args, now) ==
    LET src == args[1]
        dest == args[2]
        g == GetEntity(db, src, now)
    IN  IF ~g.ok THEN [db |-> g.db, reply |-> MakeErrReply(ErrNoSuchKey)]
        ELSE LET rawTTL == g.db.ttlMap[src]
                 hasTTL == rawTTL # NoTTL
                 d1 == Removes(g.db, <<src, dest>>).db
                 d2 == PutEntity(d1, dest, g.entity)
                 d3 == IF hasTTL
                       THEN Expire(Persist(Persist(d2, src), dest), dest, rawTTL[1])
                       ELSE d2
             IN  [db |-> addAof(d3, ToCmdLine3("renamenx", args)),
                  reply |-> MakeIntReply(1)]

execRenameNx(db, args, now) ==
    LET src == args[1]
        dest == args[2]
        gd == GetEntity(db, dest, now)
    IN  IF gd.ok THEN [db |-> gd.db, reply |-> MakeIntReply(0)]
        ELSE LET g == GetEntity(gd.db, src, now)
             IN  IF ~g.ok THEN [db |-> g.db, reply |-> MakeErrReply(ErrNoSuchKey)]
                 ELSE LET rawTTL == g.db.ttlMap[src]
                          hasTTL == rawTTL # NoTTL
                          d1 == Removes(g.db, <<src, dest>>).db
                          d2 == PutEntity(d1, dest, g.entity)
                          d3 == IF hasTTL
                                THEN Expire(Persist(Persist(d2, src), dest), dest, rawTTL[1])
                                ELSE d2
                      IN  [db |-> addAof(d3, ToCmdLine3("renamenx", args)),
                           reply |-> MakeIntReply(1)]

\* the common tail of the four expiration commands, once expireAt is computed
setExpireAt(db, key, expireAt, now) ==
    LET g == GetEntity(db, key, now)
    IN  IF ~g.ok THEN [db |-> g.db, reply |-> MakeIntReply(0)]
        ELSE [db |-> addAof(Expire(g.db, key, expireAt), MakeExpireCmd(key, expireAt)),
              reply |-> MakeIntReply(1)]

\* EXPIRE that looks the key up before it parses the time argument
execExpire_LooksUpFirst(db, args, now) ==
    LET g == GetEntity(db, args[1], now)
        ttlArg == ParseInt(args[2])
    IN  IF ~ttlArg.ok THEN [db |-> g.db, reply |-> MakeErrReply(ErrNotInt)]
        ELSE setExpireAt(db, args[1], now + ttlArg.val * Second, now)

execExpire(db, args, now) ==
    LET ttlArg == ParseInt(args[2])
    IN  IF ~ttlArg.ok THEN [db |-> db, reply |-> MakeErrReply(ErrNotInt)]
        ELSE setExpireAt(db, args[1], now + ttlArg.val * Second, now)

execExpireAt(db, args, now) ==
    LET raw == ParseInt(args[2])
    IN  IF ~raw.ok THEN [db |-> db, reply |-> MakeErrReply(ErrNotInt)]
        ELSE setExpireAt(db, args[1], raw.val * Second, now)

execPExpire(db, args, now) ==
    LET ttlArg == ParseInt(args[2])
    IN  IF ~ttlArg.ok THEN [db |-> db, reply |-> MakeErrReply(ErrNotInt)]
        ELSE setExpireAt(db, args[1], now + ttlArg.val * Millisecond, now)

execPExpireAt(db, args, now) ==
    LET raw == ParseInt(args[2])
    IN  IF ~raw.ok THEN [db |-> db, reply |-> MakeErrReply(ErrNotInt)]
        ELSE setExpireAt(db, args[1], raw.val * Millisecond, now)

\* GetEntity reads the clock (now); the remaining time is computed from a second
\* reading of the clock (later)
remainingTTL(db, key, now, later, unit) ==
    LET g == GetEntity(db, key, now)
    IN  IF ~g.ok THEN [db |-> g.db, reply |-> MakeIntReply(-2)]
        ELSE IF g.db.ttlMap[key] = NoTTL THEN [db |-> g.db, reply |-> MakeIntReply(-1)]
        ELSE [db |-> g.db, reply |-> MakeIntReply(GoDiv(g.db.ttlMap[key][1] - later, unit))]

execTTL(db, args, now, later) == remainingTTL(db, args[1], now, later, Second)

execPTTL(db, args, now, later) == remainingTTL(db, args[1], now, later, Millisecond)

execPersist(db, args, now) ==
    LET g == GetEntity(db, args[1], now)
    IN  IF ~g.ok THEN [db |-> g.db, reply |-> MakeIntReply(0)]
        ELSE IF g.db.ttlMap[args[1]] = NoTTL THEN [db |-> g.db, reply |-> MakeIntReply(0)]
        ELSE [db |-> addAof(Persist(g.db, args[1]), ToCmdLine3("persist", args)),
              reply |-> MakeIntReply(1)]

\* ForEach over db.data: every key the data map holds, expired or not
execKeys(db, args, now) ==
    [db |-> db,
     reply |-> MakeKeysReply({k \in DOMAIN db.data : db.data[k] # Nil /\ IsMatch(args[1], k)})]

\* toTTLCmd: the command line that sets the TTL entry key has now
toTTLCmd(db, key) ==
    IF db.ttlMap[key] = NoTTL
    THEN ToCmdLine3("PERSIST", <<key>>)
    ELSE ToCmdLine3("PEXPIREAT", <<key, FormatInt(GoDiv(db.ttlMap[key][1], Millisecond))>>)

\* the undo generator registered for EXPIRE, EXPIREAT, PEXPIRE, PEXPIREAT, PERSIST
undoExpire(db, args) == <<toTTLCmd(db, args[1])>>

\* the registry looks a command up by its lower-case name
ToLower(name) ==
    CASE name = "PERSIST" -> "persist"
      [] name = "PEXPIREAT" -> "pexpireat"
      [] OTHER -> name

\* one command line of an undo log, run through the executor it is registered with
ExecLine(db, line, now) ==
    CASE ToLower(line.cmd) = "pexpireat" -> execPExpireAt(db, line.args, now)
      [] ToLower(line.cmd) = "persist" -> execPersist(db, line.args, now)

\* a SET-like write executor outside keys.go: persist, put, log
execSet(db, args, entity) ==
    [db |-> addAof(PutEntity(Persist(db, args[1]), args[1], entity), ToCmdLine3("set", args)),
     reply |-> OkReply]

\* ------------------------------------------------------------------------
\* State
\* ------------------------------------------------------------------------
VARIABLES
    data,      \* db.data: key -> entity, Nil when absent
    ttlMap,    \* db.ttlMap: key -> expiration instant, NoTTL when absent
    aof,       \* the command lines handed to the AOF sink and not yet written out
    now,       \* the wall clock
    reply,     \* the reply of the last command
    last,      \* the last command: name, arguments, and the lines it handed to the sink
    pre,       \* data, ttlMap and the clock as they were when the last command started
    \* two connections, each dispatching one command through the key locks
    cmd,       \* connection -> the command it dispatches
    pc,        \* connection -> where it is in DB.Exec and the executor
    loc,       \* connection -> the executor's local variables (entity, rawTTL)
    res,       \* connection -> the reply it got
    wlock,     \* key -> the connection holding its write lock, 0 when free
    rlock,     \* key -> the connections holding its read lock
    db0,       \* the keyspace when the two commands arrived
    \* one parser task (parse0) on one byte stream
    frames,    \* the messages and chunks the peer wrote on the stream
    stream,    \* the bytes of the stream the reader has not consumed yet
    rstate,    \* the readState of parse0
    out,       \* the payloads parse0 has sent on its channel, in order
    pstatus,   \* "run", "closed" (after close(ch)) or "dead" (returned without close)
    \* the Handler and its sessions
    closing,     \* Handler.closing
    activeConn,  \* Handler.activeConn: the registered clients
    dbClosed,    \* how many times db.Close has run
    afterClosed, \* the clients db.AfterClientClose was called for
    connState,   \* connection -> "new", "open" or "closed" (closed on this side)
    peer,        \* connection -> the peer's end: "open", "eof" or "reset"
    script,      \* connection -> the messages the peer has still to send
    sent,        \* connection -> the messages the peer has sent, in order
    sock,        \* connection -> bytes received and not yet read
    buf,         \* connection -> bytes held by the bufio.Reader of parse0
    pst,         \* connection -> the readState of its parse0
    ppc,         \* connection -> parse0: "none", "read", "send", "sendlast", "closed", "dead"
    pitem,       \* connection -> the payload parse0 is sending on ch, if any
    hpc,         \* connection -> Handle: "none", "check", "register", "recv", "exec",
                 \*               "write", "werr", "done"
    hcur,        \* connection -> the payload Handle is working on, if any
    dispatched,  \* connection -> the argument lists passed to db.Exec, in order
    wire,        \* connection -> what was written to the peer: n for the reply to the
                 \*               n-th dispatched command, 0 for a protocol-error reply
    cpc,         \* caller -> its call of Handler.Close: "idle", "set", "range", "db", "done"
    csnap,       \* caller -> the clients registered when the Range of its Close began
    cseen,       \* caller -> the clients the Range of its Close has visited
    listener,    \* the listener of ListenAndServe: "open" or "closed"
    lpc,         \* ListenAndServe: "accept", "wait", "close", "returned"
    spc          \* its goroutine waiting on closeChan: "wait", "close", "done"

ksVars == <<data, ttlMap, aof, now, reply, last, pre>>
concVars == <<cmd, pc, loc, res, wlock, rlock, db0>>
parVars == <<frames, stream, rstate, out, pstatus>>
sessVars == <<closing, activeConn, dbClosed, afterClosed, connState, peer, script, sent,
              sock, buf, pst, ppc, pitem, hpc, hcur, dispatched, wire, cpc, csnap, cseen,
              listener, lpc, spc>>
vars == <<ksVars, concVars, parVars, sessVars>>

CurDB == [data |-> data, ttlMap |-> ttlMap, aof |-> aof]

\* the parts of the state a specification does not use stay as they start
ConcIdle ==
    /\ cmd = <<>> /\ pc = <<>> /\ loc = <<>> /\ res = <<>>
    /\ wlock = <<>> /\ rlock = <<>> /\ db0 = <<>>

ParIdle ==
    /\ frames = <<>> /\ stream = <<>> /\ rstate = <<>> /\ out = <<>> /\ pstatus = ""

KsIdle ==
    /\ data = <<>> /\ ttlMap = <<>> /\ aof = <<>> /\ now = 0
    /\ reply = NoReply /\ last = <<>> /\ pre = <<>>

SessIdle ==
    /\ closing = FALSE /\ activeConn = {} /\ dbClosed = 0 /\ afterClosed = {}
    /\ connState = <<>> /\ peer = <<>> /\ script = <<>> /\ sent = <<>>
    /\ sock = <<>> /\ buf = <<>> /\ pst = <<>> /\ ppc = <<>> /\ pitem = <<>>
    /\ hpc = <<>> /\ hcur = <<>> /\ dispatched = <<>> /\ wire = <<>>
    /\ cpc = <<>> /\ csnap = <<>> /\ cseen = <<>>
    /\ listener = "" /\ lpc = "" /\ spc = ""

ksOthers == <<concVars, parVars, sessVars>>

KsInit ==
    /\ ConcIdle
    /\ ParIdle
    /\ SessIdle
    /\ data = EmptyDB.data
    /\ ttlMap = EmptyDB.ttlMap
    /\ aof = EmptyDB.aof
    /\ now = Now0
    /\ reply = NoReply
    /\ last = [cmd |-> "none", args |-> <<>>, appended |-> <<>>]
    /\ pre = [data |-> EmptyDB.data, ttlMap |-> EmptyDB.ttlMap, now |-> Now0]

\* one command, executed whole; a command that logs waits for room in the sink
Commit(name, args, r) ==
    /\ Len(r.db.aof) <= AofCap
    /\ data' = r.db.data
    /\ ttlMap' = r.db.ttlMap
    /\ aof' = r.db.aof
    /\ reply' = r.reply
    /\ last' = [cmd |-> name, args |-> args,
                appended |-> SubSeq(r.db.aof, Len(aof) + 1, Len(r.db.aof))]
    /\ pre' = [data |-> data, ttlMap |-> ttlMap, now |-> now]
    /\ UNCHANGED ksOthers

Apply(name, args, r) ==
    /\ Commit(name, args, r)
    /\ UNCHANGED now

\* the clock readings a command that started at instant t can still make
Later(t) == {u \in ClockValues : u >= t}

KeyLists == UNION {[1..n -> Keys] : n \in 1..MaxDelKeys}

Del == \E ks \in KeyLists : Apply("del", ks, execDel(CurDB, ks, now))
Exists == \E ks \in KeyLists : Apply("exists", ks, execExists(CurDB, ks, now))
FlushDB == Apply("flushdb", <<>>, execFlushDB(CurDB, <<>>, now))
Type == \E k \in Keys : Apply("type", <<k>>, execType(CurDB, <<k>>, now))
Rename == \E s, d \in Keys : Apply("rename", <<s, d>>, execRename(CurDB, <<s, d>>, now))
RenameNx == \E s, d \in Keys : Apply("renamenx", <<s, d>>, execRenameNx(CurDB, <<s, d>>, now))
ExpireCmd == \E k \in Keys, t \in TimeArgs :
    Apply("expire", <<k, t>>, execExpire(CurDB, <<k, t>>, now))
ExpireAtCmd == \E k \in Keys, t \in TimeArgs :
    Apply("expireat", <<k, t>>, execExpireAt(CurDB, <<k, t>>, now))
PExpireCmd == \E k \in Keys, t \in TimeArgs :
    Apply("pexpire", <<k, t>>, execPExpire(CurDB, <<k, t>>, now))
PExpireAtCmd == \E k \in Keys, t \in TimeArgs :
    Apply("pexpireat", <<k, t>>, execPExpireAt(CurDB, <<k, t>>, now))
TTLCmd == \E k \in Keys, later \in Later(now) :
    /\ Commit("ttl", <<k>>, execTTL(CurDB, <<k>>, now, later))
    /\ now' = later
PTTLCmd == \E k \in Keys, later \in Later(now) :
    /\ Commit("pttl", <<k>>, execPTTL(CurDB, <<k>>, now, later))
    /\ now' = later
PersistCmd == \E k \in Keys : Apply("persist", <<k>>, execPersist(CurDB, <<k>>, now))
KeysCmd == \E p \in {<<"*">>} \cup Keys : Apply("keys", <<p>>, execKeys(CurDB, <<p>>, now))
SetCmd == \E k \in Keys, e \in Entities : Apply("set", <<k>>, execSet(CurDB, <<k>>, e))

\* the clock advances
Tick ==
    /\ now + TickStep \in ClockValues
    /\ now' = now + TickStep
    /\ UNCHANGED <<data, ttlMap, aof, reply, last, pre, ksOthers>>

\* the AOF writer takes the oldest line out of the sink
AofDrain ==
    /\ aof # <<>>
    /\ aof' = Tail(aof)
    /\ UNCHANGED <<data, ttlMap, now, reply, last, pre, ksOthers>>

KsNext ==
    \/ Del \/ Exists \/ FlushDB \/ Type \/ Rename \/ RenameNx
    \/ ExpireCmd \/ ExpireAtCmd \/ PExpireCmd \/ PExpireAtCmd
    \/ TTLCmd \/ PTTLCmd \/ PersistCmd \/ KeysCmd \/ SetCmd
    \/ Tick \/ AofDrain

Init == KsInit
Next == KsNext
Spec == Init /\ [][Next]_vars

\* ------------------------------------------------------------------------
\* Two connections dispatching one command each through the key locks
\* ------------------------------------------------------------------------
Clients == {1, 2}
ConcKeys == { <<"a">>, <<"b">>, <<"c">> }

ConcCmds ==
    {[cmd |-> "rename", args |-> <<s, d>>] : s, d \in ConcKeys}
    \cup {[cmd |-> "type", args |-> <<k>>] : k \in ConcKeys}
    \cup {[cmd |-> "del", args |-> <<k>>] : k \in ConcKeys}

\* the standard key extractors: (write keys, read keys)
readFirstKey(args) == [write |-> {}, read |-> {args[1]}]
writeAllKeys(args) == [write |-> {args[i] : i \in 1..Len(args)}, read |-> {}]

\* the key extractor each command is registered with
prepare(c) ==
    CASE c.cmd = "rename" -> prepareRename(c.args)
      [] c.cmd = "type" -> readFirstKey(c.args)
      [] c.cmd = "del" -> writeAllKeys(c.args)

\* the executor each command is registered with, run whole
ExecCmd(db, c, t) ==
    CASE c.cmd = "rename" -> execRename(db, c.args, t)
      [] c.cmd = "type" -> execType(db, c.args, t)
      [] c.cmd = "del" -> execDel(db, c.args, t)

WriteKeys(c) == prepare(c).write
ReadKeys(c) == prepare(c).read \ prepare(c).write

\* the keyspaces the two commands may find: a and b stored or not, with or without
\* an expiration still ahead; c not stored
ConcDBs ==
    {[data |-> [k \in ConcKeys |-> IF k \in present THEN
                                      (IF k = <<"a">> THEN [kind |-> "string", val |-> 1]
                                                      ELSE [kind |-> "list", val |-> 2])
                                   ELSE Nil],
      ttlMap |-> [k \in ConcKeys |-> IF k \in timed THEN <<Now0 + Second>> ELSE NoTTL],
      aof |-> <<>>] :
        present \in SUBSET { <<"a">>, <<"b">> }, timed \in SUBSET { <<"a">>, <<"b">> }}

NoLocals == [entity |-> Nil, rawTTL |-> NoTTL]

ConcInit ==
    /\ \E d \in ConcDBs :
          /\ \A k \in ConcKeys : d.ttlMap[k] # NoTTL => d.data[k] # Nil
          /\ data = d.data /\ ttlMap = d.ttlMap /\ aof = d.aof /\ db0 = d
    /\ cmd \in [Clients -> ConcCmds]
    /\ pc = [c \in Clients |-> "lock"]
    /\ loc = [c \in Clients |-> NoLocals]
    /\ res = [c \in Clients |-> NoReply]
    /\ wlock = [k \in ConcKeys |-> 0]
    /\ rlock = [k \in ConcKeys |-> {}]
    /\ now = Now0
    /\ reply = NoReply
    /\ last = [cmd |-> "none", args |-> <<>>, appended |-> <<>>]
    /\ pre = [data |-> EmptyDB.data, ttlMap |-> EmptyDB.ttlMap, now |-> Now0]
    /\ ParIdle
    /\ SessIdle

concOthers == <<now, reply, last, pre, parVars, sessVars>>

SetDB(d) == data' = d.data /\ ttlMap' = d.ttlMap /\ aof' = d.aof

\* DB.Exec: write locks on the write keys, read locks on the read keys
Lock(c) ==
    /\ pc[c] = "lock"
    /\ \A k \in WriteKeys(cmd[c]) : wlock[k] = 0 /\ rlock[k] = {}
    /\ \A k \in ReadKeys(cmd[c]) : wlock[k] = 0
    /\ wlock' = [k \in ConcKeys |-> IF k \in WriteKeys(cmd[c]) THEN c ELSE wlock[k]]
    /\ rlock' = [k \in ConcKeys |-> IF k \in ReadKeys(cmd[c]) THEN rlock[k] \cup {c} ELSE rlock[k]]
    /\ pc' = [pc EXCEPT ![c] = IF cmd[c].cmd = "rename" THEN "get" ELSE "exec"]
    /\ UNCHANGED <<data, ttlMap, aof, cmd, loc, res, db0, concOthers>>

Unlock(c) ==
    /\ pc[c] = "unlock"
    /\ wlock' = [k \in ConcKeys |-> IF wlock[k] = c THEN 0 ELSE wlock[k]]
    /\ rlock' = [k \in ConcKeys |-> rlock[k] \ {c}]
    /\ pc' = [pc EXCEPT ![c] = "done"]
    /\ UNCHANGED <<data, ttlMap, aof, cmd, loc, res, db0, concOthers>>

\* a single-call executor (TYPE, DEL)
ExecWhole(c) ==
    /\ pc[c] = "exec"
    /\ LET r == ExecCmd(CurDB, cmd[c], now)
       IN  SetDB(r.db) /\ res' = [res EXCEPT ![c] = r.reply]
    /\ pc' = [pc EXCEPT ![c] = "unlock"]
    /\ UNCHANGED <<cmd, loc, wlock, rlock, db0, concOthers>>

\* execRename, one keyspace call at a time
RenameGet(c) ==
    /\ pc[c] = "get"
    /\ LET g == GetEntity(CurDB, cmd[c].args[1], now)
       IN  /\ SetDB(g.db)
           /\ IF g.ok
              THEN /\ loc' = [loc EXCEPT ![c].entity = g.entity]
                   /\ pc' = [pc EXCEPT ![c] = "ttlget"]
                   /\ UNCHANGED res
              ELSE /\ res' = [res EXCEPT ![c] = MakeErrReply(ErrNoSuchKey)]
                   /\ pc' = [pc EXCEPT ![c] = "unlock"]
                   /\ UNCHANGED loc
    /\ UNCHANGED <<cmd, wlock, rlock, db0, concOthers>>

RenameGetTTL(c) ==
    /\ pc[c] = "ttlget"
    /\ loc' = [loc EXCEPT ![c].rawTTL = ttlMap[cmd[c].args[1]]]
    /\ pc' = [pc EXCEPT ![c] = "put"]
    /\ UNCHANGED <<data, ttlMap, aof, cmd, res, wlock, rlock, db0, concOthers>>

RenamePut(c) ==
    /\ pc[c] = "put"
    /\ SetDB(PutEntity(CurDB, cmd[c].args[2], loc[c].entity))
    /\ pc' = [pc EXCEPT ![c] = "remove"]
    /\ UNCHANGED <<cmd, loc, res, wlock, rlock, db0, concOthers>>

RenameRemove(c) ==
    /\ pc[c] = "remove"
    /\ SetDB(Remove(CurDB, cmd[c].args[1]))
    /\ pc' = [pc EXCEPT ![c] = IF loc[c].rawTTL # NoTTL THEN "persistsrc" ELSE "aof"]
    /\ UNCHANGED <<cmd, loc, res, wlock, rlock, db0, concOthers>>

RenamePersistSrc(c) ==
    /\ pc[c] = "persistsrc"
    /\ SetDB(Persist(CurDB, cmd[c].args[1]))
    /\ pc' = [pc EXCEPT ![c] = "persistdest"]
    /\ UNCHANGED <<cmd, loc, res, wlock, rlock, db0, concOthers>>

RenamePersistDest(c) ==
    /\ pc[c] = "persistdest"
    /\ SetDB(Persist(CurDB, cmd[c].args[2]))
    /\ pc' = [pc EXCEPT ![c] = "expire"]
    /\ UNCHANGED <<cmd, loc, res, wlock, rlock, db0, concOthers>>

RenameExpire(c) ==
    /\ pc[c] = "expire"
    /\ SetDB(Expire(CurDB, cmd[c].args[2], loc[c].rawTTL[1]))
    /\ pc' = [pc EXCEPT ![c] = "aof"]
    /\ UNCHANGED <<cmd, loc, res, wlock, rlock, db0, concOthers>>

RenameAof(c) ==
    /\ pc[c] = "aof"
    /\ SetDB(addAof(CurDB, ToCmdLine3("rename", cmd[c].args)))
    /\ res' = [res EXCEPT ![c] = OkReply]
    /\ pc' = [pc EXCEPT ![c] = "unlock"]
    /\ UNCHANGED <<cmd, loc, wlock, rlock, db0, concOthers>>

ConcNext ==
    \E c \in Clients :
        \/ Lock(c) \/ Unlock(c) \/ ExecWhole(c)
        \/ RenameGet(c) \/ RenameGetTTL(c) \/ RenamePut(c) \/ RenameRemove(c)
        \/ RenamePersistSrc(c) \/ RenamePersistDest(c) \/ RenameExpire(c) \/ RenameAof(c)

SpecConc == ConcInit /\ [][ConcNext]_vars

\* ------------------------------------------------------------------------
\* Keyspace properties
\* ------------------------------------------------------------------------
PreDB == [data |-> pre.data, ttlMap |-> pre.ttlMap, aof |-> <<>>]

\* key k was visible when the last command started: stored and not past its expiration
WasPresent(k) == pre.data[k] # Nil /\ ~IsExpired(PreDB, k, pre.now)

\* the keyspace is as it was before the last command, but for the lazy removal of
\* the keys in ks that had expired
OnlyLazilyRemoved(ks) ==
    /\ \A k \in Keys :
          IF k \in ks /\ IsExpired(PreDB, k, pre.now)
          THEN data[k] = Nil /\ ttlMap[k] = NoTTL
          ELSE data[k] = pre.data[k] /\ ttlMap[k] = pre.ttlMap[k]
    /\ last.appended = <<>>

\* C1: every key that has an entry in the TTL mapping has an entry in the keyspace
\* mapping, after any sequence of keyspace commands
C1_NoOrphanTTL == \A k \in Keys : ttlMap[k] # NoTTL => data[k] # Nil

\* C2: RENAME src dst replies "no such key" and changes nothing when src is absent;
\* otherwise it replies OK, dst holds the entity src held, and src is gone when it
\* differs from dst
C2_RenameMovesEntity ==
    last.cmd = "rename" =>
        LET src == last.args[1]
            dst == last.args[2]
        IN  IF ~WasPresent(src)
            THEN reply = MakeErrReply(ErrNoSuchKey) /\ OnlyLazilyRemoved({src})
            ELSE /\ reply = OkReply
                 /\ data[dst] = pre.data[src]
                 /\ src # dst => data[src] = Nil

\* C3: after a successful RENAME src dst, dst has exactly the expiration src had
\* before the command (none when src had none), whatever expiration dst had
C3_RenameMovesTTL ==
    (last.cmd = "rename" /\ reply = OkReply) =>
        ttlMap[last.args[2]] = pre.ttlMap[last.args[1]]

\* RENAMENX with dst present, and with dst absent and src present
RenameNxDstPresent ==
    (last.cmd = "renamenx" /\ WasPresent(last.args[2])) =>
        /\ reply = MakeIntReply(0)
        /\ data = pre.data /\ ttlMap = pre.ttlMap /\ last.appended = <<>>

RenameNxMoves ==
    (last.cmd = "renamenx" /\ ~WasPresent(last.args[2]) /\ WasPresent(last.args[1])) =>
        LET src == last.args[1]
            dst == last.args[2]
        IN  /\ reply = MakeIntReply(1)
            /\ data[dst] = pre.data[src]
            /\ ttlMap[dst] = pre.ttlMap[src]
            /\ data[src] = Nil /\ ttlMap[src] = NoTTL
            /\ last.appended = <<ToCmdLine3("renamenx", last.args)>>

\* C4, as claimed: RENAMENX replies 0 and changes nothing when dst is present,
\* replies 1 and moves entity and TTL when dst is absent and src present, and
\* replies "no such key" whenever src is absent
C4_RenameNx_Original ==
    /\ RenameNxDstPresent
    /\ RenameNxMoves
    /\ (last.cmd = "renamenx" /\ ~WasPresent(last.args[1])) =>
          reply = MakeErrReply(ErrNoSuchKey)

\* C4, amended: RENAMENX replies 0 and changes nothing when dst is present (src
\* present or not), replies 1 and moves entity and TTL when dst is absent and src
\* present, and replies "no such key" when both src and dst are absent
C4_RenameNx ==
    /\ RenameNxDstPresent
    /\ RenameNxMoves
    /\ (last.cmd = "renamenx" /\ ~WasPresent(last.args[1]) /\ ~WasPresent(last.args[2])) =>
          /\ reply = MakeErrReply(ErrNoSuchKey)
          /\ OnlyLazilyRemoved({last.args[1], last.args[2]})

\* C4 witness: a RENAMENX onto an absent key moved an entity together with its TTL
C4_Witness ==
    /\ last.cmd = "renamenx" /\ reply = MakeIntReply(1)
    /\ ttlMap[last.args[2]] # NoTTL /\ data[last.args[2]] # Nil

\* C5: a read command never reports a key whose expiration instant has passed:
\* EXISTS does not count it, TYPE says none, TTL and PTTL say -2, KEYS omits it
C5_ReadsHonourExpiration ==
    /\ last.cmd = "exists" =>
          reply = MakeIntReply(Cardinality({i \in 1..Len(last.args) : WasPresent(last.args[i])}))
    /\ (last.cmd = "type" /\ ~WasPresent(last.args[1])) => reply = MakeStatusReply("none")
    /\ (last.cmd \in {"ttl", "pttl"} /\ ~WasPresent(last.args[1])) => reply = MakeIntReply(-2)
    /\ last.cmd = "keys" => \A k \in reply.keys : WasPresent(k)

\* ------------------------------------------------------------------------
\* What the write commands hand to the AOF sink
\* ------------------------------------------------------------------------
WriteCmds == {"del", "rename", "renamenx", "expire", "pexpire", "expireat",
              "pexpireat", "persist", "flushdb"}

IsErrReply == reply.t = "err"

\* the reply of a command that changed the keyspace: OK or a positive integer
IsEffectReply == reply = OkReply \/ (reply.t = "int" /\ reply.n > 0)

ExpireCmds == {"expire", "pexpire", "expireat", "pexpireat"}

\* the instant command c with the integer n asks for, issued at instant t0
ExpireInstant(c, n, t0) ==
    CASE c = "expire" -> t0 + n * Second
      [] c = "pexpire" -> t0 + n * Millisecond
      [] c = "expireat" -> n * Second
      [] c = "pexpireat" -> n * Millisecond

\* C16: EXPIRE, PEXPIRE, EXPIREAT and PEXPIREAT reply 1 and set the key's
\* expiration instant, overriding any earlier one, when the key exists; reply 0
\* and leave keyspace, TTL mapping and AOF unchanged when the key is absent;
\* reply "ERR value is not an integer or out of range" and leave everything
\* unchanged when the time argument is not an integer, whether or not the key
\* exists.
C16_ExpireFamily ==
    last.cmd \in ExpireCmds =>
        LET k == last.args[1]
            t == ParseInt(last.args[2])
        IN  IF ~t.ok
            THEN /\ reply = MakeErrReply(ErrNotInt)
                 /\ data = pre.data /\ ttlMap = pre.ttlMap
                 /\ last.appended = <<>>
            ELSE IF WasPresent(k)
            THEN /\ reply = MakeIntReply(1)
                 /\ data = pre.data
                 /\ ttlMap = [pre.ttlMap EXCEPT
                                ![k] = <<ExpireInstant(last.cmd, t.val, pre.now)>>]
            ELSE /\ reply = MakeIntReply(0)
                 /\ OnlyLazilyRemoved({k})

\* an EXPIRE that replaced the earlier expiration instant of a present key
C16_Witness ==
    /\ last.cmd = "expire"
    /\ WasPresent(last.args[1])
    /\ pre.ttlMap[last.args[1]] # NoTTL
    /\ reply = MakeIntReply(1)
    /\ ttlMap[last.args[1]] # pre.ttlMap[last.args[1]]

\* ------------------------------------------------------------------------
\* Reading and removing an expiration
\* ------------------------------------------------------------------------
HadTTL(k) == WasPresent(k) /\ pre.ttlMap[k] # NoTTL

\* C17: TTL and PTTL reply -2 for an absent key, -1 for a present key without
\* expiration, and otherwise the non-negative remaining time; PERSIST replies 1
\* exactly when it removed the TTL entry of a present key, leaving the entity
\* as it was, and 0 otherwise (key absent or no TTL), changing nothing.
C17_TTLLifecycle ==
    /\ last.cmd \in {"ttl", "pttl"} =>
          LET k == last.args[1]
          IN  IF ~WasPresent(k) THEN reply = MakeIntReply(-2)
              ELSE IF ~HadTTL(k) THEN reply = MakeIntReply(-1)
              ELSE reply.t = "int" /\ reply.n >= 0
    /\ last.cmd = "persist" =>
          LET k == last.args[1]
          IN  IF HadTTL(k)
              THEN /\ reply = MakeIntReply(1)
                   /\ data = pre.data
                   /\ ttlMap = [pre.ttlMap EXCEPT ![k] = NoTTL]
              ELSE /\ reply = MakeIntReply(0)
                   /\ OnlyLazilyRemoved({k})

\* ------------------------------------------------------------------------
\* Undoing a TTL command
\* ------------------------------------------------------------------------
TTLWriteCmds == ExpireCmds \cup {"persist"}

\* the keyspace the last command left
PostDB == [data |-> data, ttlMap |-> ttlMap, aof |-> <<>>]

\* what undoExpire gave before the last command ran
UndoLog == undoExpire(PreDB, last.args)

\* the keyspace after the undo log has run, right after the last command
UndoneDB == ExecLine(PostDB, UndoLog[1], pre.now).db

\* the TTL entry of k at millisecond precision; none for a key that is not
\* stored or is past its expiration instant
TTLEntryMs(db, k, t) ==
    IF db.data[k] = Nil \/ db.ttlMap[k] = NoTTL \/ IsExpired(db, k, t)
    THEN NoTTL
    ELSE <<GoDiv(db.ttlMap[k][1], Millisecond)>>

\* C21: the output of undoExpire taken before EXPIRE, PEXPIRE, EXPIREAT,
\* PEXPIREAT or PERSIST on k, executed after the command, leaves k's TTL entry
\* as it was before the command (the same instant at millisecond precision, or
\* no entry); the output is PEXPIREAT k t when k had a TTL and PERSIST k when
\* it had none
C21_UndoRestoresTTL ==
    last.cmd \in TTLWriteCmds =>
        LET k == last.args[1]
        IN  /\ Len(UndoLog) = 1
            /\ IF pre.ttlMap[k] = NoTTL
               THEN UndoLog[1] = [cmd |-> "PERSIST", args |-> <<k>>]
               ELSE UndoLog[1] = [cmd |-> "PEXPIREAT",
                                  args |-> <<k, FormatInt(pre.ttlMap[k][1] \div Millisecond)>>]
            /\ TTLEntryMs(UndoneDB, k, pre.now) = TTLEntryMs(PreDB, k, pre.now)

\* ------------------------------------------------------------------------
\* The RESP parser (parse0 and its helpers)
\* ------------------------------------------------------------------------
CR == "\r"
LF == "\n"
CRLF == <<CR, LF>>

MakeBulkReply(arg) == [t |-> "bulk", arg |-> arg]
NullBulkReply == [t |-> "nullbulk"]
MakeMultiBulkReply(args) == [t |-> "multibulk", args |-> args]
EmptyMultiBulkReply == [t |-> "emptymultibulk"]
NilReply == [t |-> "nil"]

\* errors: io tells an I/O error of the stream from a protocol error
NoErr == [io |-> FALSE, text |-> "", msg |-> <<>>]
ErrEOF == [io |-> TRUE, text |-> "EOF", msg |-> <<>>]
ErrUnexpectedEOF == [io |-> TRUE, text |-> "unexpected EOF", msg |-> <<>>]
ProtocolError(msg) == [io |-> FALSE, text |-> "protocol error: ", msg |-> msg]

\* Payload{Data, Err}
DataPayload(r) == [Data |-> r, Err |-> NoErr]
ErrPayload(e) == [Data |-> NilReply, Err |-> e]

\* readState; the zero value is what parse0 starts with and resets to
ZeroState == [readingMultiLine |-> FALSE, expectedArgsCount |-> 0, msgType |-> "",
              args |-> <<>>, bulkLen |-> 0]

finished(state) ==
    state.expectedArgsCount > 0 /\ Len(state.args) = state.expectedArgsCount

\* position of the first LF of s, 0 when there is none
IndexLF(s) ==
    IF \E i \in 1..Len(s) : s[i] = LF
    THEN CHOOSE i \in 1..Len(s) : s[i] = LF /\ \A j \in 1..(i - 1) : s[j] # LF
    ELSE 0

\* readLine: kind is "ok", "ioerr", "protoerr" or "panic" (index out of range);
\* rest is what the reader still holds
readLine(input, state) ==
    IF state.bulkLen = 0
    THEN LET i == IndexLF(input)
             msg == SubSeq(input, 1, i)
             rest == SubSeq(input, i + 1, Len(input))
         IN  IF i = 0
             THEN [kind |-> "ioerr", msg |-> <<>>, err |-> ErrEOF, rest |-> <<>>, state |-> state]
             ELSE IF Len(msg) < 2
             THEN [kind |-> "panic", msg |-> msg, err |-> NoErr, rest |-> rest, state |-> state]
             ELSE IF msg[Len(msg) - 1] # CR
             THEN [kind |-> "protoerr", msg |-> msg, err |-> ProtocolError(msg),
                   rest |-> rest, state |-> state]
             ELSE [kind |-> "ok", msg |-> msg, err |-> NoErr, rest |-> rest, state |-> state]
    ELSE LET n == state.bulkLen + 2
             msg == SubSeq(input, 1, n)
             rest == SubSeq(input, n + 1, Len(input))
         IN  IF Len(input) < n
             THEN [kind |-> "ioerr", msg |-> <<>>,
                   err |-> IF input = <<>> THEN ErrEOF ELSE ErrUnexpectedEOF,
                   rest |-> <<>>, state |-> state]
             ELSE IF msg[Len(msg) - 1] # CR \/ msg[Len(msg)] # LF
             THEN [kind |-> "protoerr", msg |-> msg, err |-> ProtocolError(msg),
                   rest |-> rest, state |-> state]
             ELSE [kind |-> "ok", msg |-> msg, err |-> NoErr, rest |-> rest,
                   state |-> [state EXCEPT !.bulkLen = 0]]

\* msg without its first byte and its last two
HeaderNumber(msg) == SubSeq(msg, 2, Len(msg) - 2)

parseMultiBulkHeader(msg, state) ==
    LET expectedLine == ParseUint(HeaderNumber(msg))
    IN  IF ~expectedLine.ok THEN [err |-> ProtocolError(msg), state |-> state]
        ELSE IF expectedLine.val = 0
        THEN [err |-> NoErr, state |-> [state EXCEPT !.expectedArgsCount = 0]]
        ELSE [err |-> NoErr,
              state |-> [state EXCEPT !.msgType = msg[1],
                                      !.readingMultiLine = TRUE,
                                      !.expectedArgsCount = expectedLine.val,
                                      !.args = <<>>]]

parseBulkHeader(msg, state) ==
    LET n == ParseInt(HeaderNumber(msg))
        s1 == [state EXCEPT !.bulkLen = n.val]
    IN  IF ~n.ok THEN [err |-> ProtocolError(msg), state |-> s1]
        ELSE IF n.val = -1 THEN [err |-> NoErr, state |-> s1]
        ELSE IF n.val > 0
        THEN [err |-> NoErr,
              state |-> [s1 EXCEPT !.msgType = msg[1],
                                   !.readingMultiLine = TRUE,
                                   !.expectedArgsCount = 1,
                                   !.args = <<>>]]
        ELSE [err |-> ProtocolError(msg), state |-> s1]

\* strings.Split(s, " ")
RECURSIVE SplitSpaces(_)
SplitSpaces(s) ==
    IF \E i \in 1..Len(s) : s[i] = " "
    THEN LET i == CHOOSE i \in 1..Len(s) : s[i] = " " /\ \A j \in 1..(i - 1) : s[j] # " "
         IN  <<SubSeq(s, 1, i - 1)>> \o SplitSpaces(SubSeq(s, i + 1, Len(s)))
    ELSE <<s>>

parseSingleLineReply(msg) ==
    LET str == SubSeq(msg, 1, Len(msg) - 2)
        body == Tail(str)
    IN  CASE msg[1] = "+" -> [result |-> MakeStatusReply(body), err |-> NoErr]
          [] msg[1] = "-" -> [result |-> MakeErrReply(body), err |-> NoErr]
          [] msg[1] = ":" ->
                LET val == ParseInt(body)
                IN  IF val.ok THEN [result |-> MakeIntReply(val.val), err |-> NoErr]
                    ELSE [result |-> NilReply, err |-> ProtocolError(msg)]
          [] OTHER -> [result |-> MakeMultiBulkReply(SplitSpaces(str)), err |-> NoErr]

\* readBody: kind is "ok", "err" or "panic" (line[0] of an empty line)
readBody(msg, state) ==
    LET line == SubSeq(msg, 1, Len(msg) - 2)
    IN  IF line = <<>> THEN [kind |-> "panic", err |-> NoErr, state |-> state]
        ELSE IF line[1] = "$"
        THEN LET n == ParseInt(Tail(line))
             IN  IF ~n.ok
                 THEN [kind |-> "err", err |-> ProtocolError(msg),
                       state |-> [state EXCEPT !.bulkLen = n.val]]
                 ELSE IF n.val <= 0
                 THEN [kind |-> "ok", err |-> NoErr,
                       state |-> [state EXCEPT !.args = Append(@, <<>>), !.bulkLen = 0]]
                 ELSE [kind |-> "ok", err |-> NoErr,
                       state |-> [state EXCEPT !.bulkLen = n.val]]
        ELSE [kind |-> "ok", err |-> NoErr,
              state |-> [state EXCEPT !.args = Append(@, line)]]

\* one turn of the loop of parse0 on the bytes the reader holds:
\* what is sent on the channel (emit), the bytes left, the new readState, and
\* whether the loop goes on ("run"), ends after close(ch) ("closed") or ends in
\* the recovered panic without close(ch) ("dead")
parse0Turn(input, state) ==
    LET rl == readLine(input, state)
        Turn(emit, st, status) ==
            [emit |-> emit, rest |-> rl.rest, state |-> st, status |-> status,
             path |-> IF rl.kind # "ok" THEN rl.kind
                      ELSE IF status = "dead" THEN "panic"
                      ELSE IF rl.state.readingMultiLine THEN "body" ELSE "header"]
    IN  CASE rl.kind = "ioerr" -> Turn(<<ErrPayload(rl.err)>>, state, "closed")
          [] rl.kind = "panic" -> Turn(<<>>, state, "dead")
          [] rl.kind = "protoerr" -> Turn(<<ErrPayload(rl.err)>>, ZeroState, "run")
          [] OTHER ->
             LET msg == rl.msg
                 st == rl.state
             IN  IF ~st.readingMultiLine
                 THEN IF msg[1] = "*"
                      THEN LET h == parseMultiBulkHeader(msg, st)
                           IN  IF h.err # NoErr
                               THEN Turn(<<ErrPayload(ProtocolError(msg))>>, ZeroState, "run")
                               ELSE IF h.state.expectedArgsCount = 0
                               THEN Turn(<<DataPayload(EmptyMultiBulkReply)>>, ZeroState, "run")
                               ELSE Turn(<<>>, h.state, "run")
                      ELSE IF msg[1] = "$"
                      THEN LET h == parseBulkHeader(msg, st)
                           IN  IF h.err # NoErr
                               THEN Turn(<<ErrPayload(ProtocolError(msg))>>, ZeroState, "run")
                               ELSE IF h.state.bulkLen = -1
                               THEN Turn(<<DataPayload(NullBulkReply)>>, ZeroState, "run")
                               ELSE Turn(<<>>, h.state, "run")
                      ELSE LET r == parseSingleLineReply(msg)
                           IN  Turn(<<[Data |-> r.result, Err |-> r.err]>>, ZeroState, "run")
                 ELSE LET b == readBody(msg, st)
                      IN  IF b.kind = "panic" THEN Turn(<<>>, st, "dead")
                          ELSE IF b.kind = "err"
                          THEN Turn(<<ErrPayload(ProtocolError(msg))>>, ZeroState, "run")
                          ELSE IF finished(b.state)
                          THEN Turn(<<DataPayload(
                                        IF b.state.msgType = "*"
                                        THEN MakeMultiBulkReply(b.state.args)
                                        ELSE MakeBulkReply(b.state.args[1]))>>,
                                    ZeroState, "run")
                          ELSE Turn(<<>>, b.state, "run")

\* ------------------------------------------------------------------------
\* The writer: a reply value as bytes
\* ------------------------------------------------------------------------
BulkBytes(arg) == <<"$">> \o FormatInt(Len(arg)) \o CRLF \o arg \o CRLF

RECURSIVE BulksBytes(_)
BulksBytes(args) ==
    IF args = <<>> THEN <<>> ELSE BulkBytes(Head(args)) \o BulksBytes(Tail(args))

\* ToBytes of each reply of the taxonomy; a raw frame is bytes a peer wrote as they are
ToBytes(r) ==
    CASE r.t = "status" -> <<"+">> \o r.s \o CRLF
      [] r.t = "err" -> <<"-">> \o r.s \o CRLF
      [] r.t = "int" -> <<":">> \o FormatInt(r.n) \o CRLF
      [] r.t = "bulk" -> BulkBytes(r.arg)
      [] r.t = "nullbulk" -> <<"$", "-", "1">> \o CRLF
      [] r.t = "multibulk" -> <<"*">> \o FormatInt(Len(r.args)) \o CRLF \o BulksBytes(r.args)
      [] r.t = "emptymultibulk" -> <<"*", "0">> \o CRLF
      [] r.t = "raw" -> r.bytes
      [] r.t = "message" -> r.bytes

RECURSIVE Wire(_)
Wire(fs) == IF fs = <<>> THEN <<>> ELSE ToBytes(Head(fs)) \o Wire(Tail(fs))

\* ------------------------------------------------------------------------
\* One parser task on one byte stream
\* ------------------------------------------------------------------------
\* bulk payloads: plain, starting with a type tag, holding CR or LF, and empty
Payloads ==
    { <<>>, <<"a">>, <<"a", "b">>, <<"$">>, <<"$", "1">>, <<"*">>, <<CR>>, <<LF>>, <<CR, LF>> }

ArgLists == UNION {[1..n -> Payloads] : n \in 1..MaxArgs}

\* every kind of reply value
ReplyValues ==
    {MakeStatusReply(t) : t \in { <<>>, <<"O", "K">> }}
    \cup {MakeErrReply(t) : t \in { <<"E">> }}
    \cup {MakeIntReply(n) : n \in {0 - 1, 0, 12}}
    \cup {MakeBulkReply(b) : b \in Payloads}
    \cup {NullBulkReply, EmptyMultiBulkReply}
    \cup {MakeMultiBulkReply(args) : args \in ArgLists}

Raw(bytes) == [t |-> "raw", bytes |-> bytes]

\* malformed lines: a lone LF, a line without CR, non-numeric lengths, negative
\* lengths other than -1, a bulk body without CRLF at its end; at the start of a
\* message and inside a multi-bulk
MalformedChunks ==
    { <<LF>>,
      <<"a", LF>>,
      <<"*", "x", CR, LF>>,
      <<"$", "x", CR, LF>>,
      <<"$", "-", "2", CR, LF>>,
      <<"$", "1", CR, LF, "a", "b", "c">>,
      <<"*", "1", CR, LF, "$", "x", CR, LF>>,
      <<"*", "1", CR, LF, "$", "-", "2", CR, LF>>,
      <<"*", "1", CR, LF, "$", "1", CR, LF, "a", "b", "c">> }

\* inside a multi-bulk, a line that should be a $M header and is not: a whole
\* line, and (scenario S7) a byte after which the next message starts
HeaderlessChunks ==
    { <<"*", "1", CR, LF, "a", "b", CR, LF>>,
      <<"*", "2", CR, LF, "$", "1", CR, LF, "a", CR, LF, "X">> }

\* a well-formed message a peer wrote as bytes
Message(bytes) == [t |-> "message", bytes |-> bytes]

\* multi-bulk messages with a null argument ($-1)
NullArgMessages ==
    { <<"*", "1", CR, LF, "$", "-", "1", CR, LF>>,
      <<"*", "2", CR, LF, "$", "-", "1", CR, LF, "$", "1", CR, LF, "a", CR, LF>> }

FirstFrames ==
    ReplyValues \cup {Raw(c) : c \in MalformedChunks \cup HeaderlessChunks}
                \cup {Message(c) : c \in NullArgMessages}

\* a well-formed command that follows: PING-like
FollowFrames == {MakeMultiBulkReply(<< <<"P">> >>), MakeStatusReply(<<"O", "K">>)}

FrameLists ==
    {<<f>> \o rest : f \in FirstFrames,
                     rest \in UNION {[1..n -> FollowFrames] : n \in 0..(MaxMsgs - 1)}}

parOthers == <<ksVars, concVars, sessVars>>

ParInit ==
    /\ KsIdle
    /\ ConcIdle
    /\ SessIdle
    /\ frames \in FrameLists
    /\ stream = Wire(frames)
    /\ rstate = ZeroState
    /\ out = <<>>
    /\ pstatus = "run"

\* one turn of parse0 that takes the given path
ParseTurn(path) ==
    LET t == parse0Turn(stream, rstate)
    IN  /\ t.path = path
        /\ stream' = t.rest
        /\ rstate' = t.state
        /\ out' = out \o t.emit
        /\ pstatus' = t.status

\* the stream ends (or fails): one error payload, close(ch)
ParseIOErr ==
    /\ pstatus = "run"
    /\ ParseTurn("ioerr")
    /\ UNCHANGED <<frames, parOthers>>

\* an index out of range: recovered by the deferred function, which only logs
ParsePanic ==
    /\ pstatus = "run"
    /\ ParseTurn("panic")
    /\ UNCHANGED <<frames, parOthers>>

\* readLine reports a protocol error
ParseBadLine ==
    /\ pstatus = "run"
    /\ ParseTurn("protoerr")
    /\ UNCHANGED <<frames, parOthers>>

\* a line read while no multi-line message is open
ParseHeader ==
    /\ pstatus = "run"
    /\ ParseTurn("header")
    /\ UNCHANGED <<frames, parOthers>>

\* a line or bulk body read inside a multi-line message
ParseBody ==
    /\ pstatus = "run"
    /\ ParseTurn("body")
    /\ UNCHANGED <<frames, parOthers>>

ParNext == ParseIOErr \/ ParsePanic \/ ParseBadLine \/ ParseHeader \/ ParseBody

SpecParser == ParInit /\ [][ParNext]_vars

\* ------------------------------------------------------------------------
\* Sessions: Handler.Handle, the parse0 task of each connection, Handler.Close
\* ------------------------------------------------------------------------
Conns == 1..MaxConns

\* the two calls of handler.Close in ListenAndServe: by the goroutine that waits
\* on closeChan, and by the deferred function
Closers == {"signal", "defer"}

ErrClosed == [io |-> TRUE, text |-> "use of closed network connection", msg |-> <<>>]
ErrReset == [io |-> TRUE, text |-> "connection reset by peer", msg |-> <<>>]

\* what a peer sends: two commands, a line without CR, a lone LF, a reply that
\* is no command
CmdP == MakeMultiBulkReply(<< <<"P">> >>)
CmdQ == MakeMultiBulkReply(<< <<"Q">> >>)
BadLine == Raw(<<"a", LF>>)
LoneLF == Raw(<<LF>>)
ClientFrames == {CmdP, CmdQ, BadLine, LoneLF, MakeStatusReply(<<"O", "K">>)}
ClientScripts == UNION {[1..n -> ClientFrames] : n \in 1..MaxCmds}

SessInit ==
    /\ KsIdle
    /\ ConcIdle
    /\ ParIdle
    /\ closing = FALSE
    /\ activeConn = {}
    /\ dbClosed = 0
    /\ afterClosed = {}
    /\ connState = [c \in Conns |-> "new"]
    /\ peer = [c \in Conns |-> "open"]
    /\ script \in [Conns -> ClientScripts]
    /\ sent = [c \in Conns |-> <<>>]
    /\ sock = [c \in Conns |-> <<>>]
    /\ buf = [c \in Conns |-> <<>>]
    /\ pst = [c \in Conns |-> ZeroState]
    /\ ppc = [c \in Conns |-> "none"]
    /\ pitem = [c \in Conns |-> <<>>]
    /\ hpc = [c \in Conns |-> "none"]
    /\ hcur = [c \in Conns |-> <<>>]
    /\ dispatched = [c \in Conns |-> <<>>]
    /\ wire = [c \in Conns |-> <<>>]
    /\ cpc = [k \in Closers |-> "idle"]
    /\ csnap = [k \in Closers |-> {}]
    /\ cseen = [k \in Closers |-> {}]
    /\ listener = "open"
    /\ lpc = "accept"
    /\ spc = "wait"

sessOthers == <<ksVars, concVars, parVars>>
serverVars == <<listener, lpc, spc>>
peerVars == <<peer, script, sent, sock>>
parserVars == <<buf, pst, ppc, pitem>>
closeVars == <<cpc, csnap, cseen>>
handlerVars == <<closing, activeConn, dbClosed, afterClosed>>
traceVars == <<dispatched, wire>>

\* ---- the peer ----
\* the peer writes its next message, whole
ClientSend(c) ==
    /\ connState[c] # "new"
    /\ peer[c] = "open"
    /\ script[c] # <<>>
    /\ sock' = [sock EXCEPT ![c] = @ \o ToBytes(Head(script[c]))]
    /\ sent' = [sent EXCEPT ![c] = Append(@, Head(script[c]))]
    /\ script' = [script EXCEPT ![c] = Tail(@)]
    /\ UNCHANGED <<peer, connState, parserVars, hpc, hcur, handlerVars, traceVars,
                   closeVars, serverVars, sessOthers>>

\* the peer closes its end: reads find the end of the stream after the bytes sent
ClientClose(c) ==
    /\ connState[c] # "new"
    /\ peer[c] = "open"
    /\ peer' = [peer EXCEPT ![c] = "eof"]
    /\ UNCHANGED <<script, sent, sock, connState, parserVars, hpc, hcur, handlerVars,
                   traceVars, closeVars, serverVars, sessOthers>>

\* the connection breaks: reads fail, writes may
ClientReset(c) ==
    /\ connState[c] # "new"
    /\ peer[c] = "open"
    /\ peer' = [peer EXCEPT ![c] = "reset"]
    /\ UNCHANGED <<script, sent, sock, connState, parserVars, hpc, hcur, handlerVars,
                   traceVars, closeVars, serverVars, sessOthers>>

\* ListenAndServe accepts the connection and starts a goroutine running Handle
Accept(c) ==
    /\ lpc = "accept"
    /\ listener = "open"
    /\ connState[c] = "new"
    /\ connState' = [connState EXCEPT ![c] = "open"]
    /\ hpc' = [hpc EXCEPT ![c] = "check"]
    /\ UNCHANGED <<peerVars, parserVars, hcur, handlerVars, traceVars, closeVars, serverVars, sessOthers>>

\* ---- the parse0 task of a connection ----
\* readLine has what it waits for: a line, or bulkLen+2 bytes
UnitAvailable(input, state) ==
    IF state.bulkLen = 0 THEN IndexLF(input) # 0 ELSE Len(input) >= state.bulkLen + 2

\* what a read of the bufio.Reader of connection c finds: "data" with the bytes
\* the reader then holds (its own, or its own and the socket's), "fail" with the
\* error of the socket, "eof" at the end of the stream, "wait" while nothing is there
ReadOf(c) ==
    IF UnitAvailable(buf[c], pst[c])
    THEN [kind |-> "data", input |-> buf[c], fill |-> FALSE, err |-> NoErr]
    ELSE IF connState[c] = "closed"
    THEN [kind |-> "fail", input |-> <<>>, fill |-> TRUE, err |-> ErrClosed]
    ELSE IF peer[c] = "reset"
    THEN [kind |-> "fail", input |-> <<>>, fill |-> TRUE, err |-> ErrReset]
    ELSE IF UnitAvailable(buf[c] \o sock[c], pst[c])
    THEN [kind |-> "data", input |-> buf[c] \o sock[c], fill |-> TRUE, err |-> NoErr]
    ELSE IF peer[c] = "eof"
    THEN [kind |-> "eof", input |-> buf[c] \o sock[c], fill |-> TRUE, err |-> NoErr]
    ELSE [kind |-> "wait", input |-> <<>>, fill |-> FALSE, err |-> NoErr]

\* one turn of the loop of parse0 on connection c, up to its send on ch
ParserTurn(c, kinds) ==
    LET r == ReadOf(c)
        t == IF r.kind = "fail"
             THEN [emit |-> <<ErrPayload(r.err)>>, rest |-> <<>>, state |-> pst[c],
                   status |-> "closed", path |-> "ioerr"]
             ELSE parse0Turn(r.input, pst[c])
    IN  /\ ppc[c] = "read"
        /\ r.kind \in kinds
        /\ buf' = [buf EXCEPT ![c] = t.rest]
        /\ sock' = [sock EXCEPT ![c] = IF r.fill THEN <<>> ELSE @]
        /\ pst' = [pst EXCEPT ![c] = t.state]
        /\ pitem' = [pitem EXCEPT ![c] = t.emit]
        /\ ppc' = [ppc EXCEPT ![c] = IF t.emit # <<>>
                                     THEN IF t.status = "closed" THEN "sendlast" ELSE "send"
                                     ELSE IF t.status = "dead" THEN "dead" ELSE "read"]

\* parse0 reads a line or a bulk body and handles it
ParserRead(c) ==
    /\ ParserTurn(c, {"data"})
    /\ UNCHANGED <<peer, script, sent, connState, hpc, hcur, handlerVars, traceVars,
                   closeVars, serverVars, sessOthers>>

\* the read of parse0 fails or finds the end of the stream
ParserReadError(c) ==
    /\ ParserTurn(c, {"fail", "eof"})
    /\ UNCHANGED <<peer, script, sent, connState, hpc, hcur, handlerVars, traceVars,
                   closeVars, serverVars, sessOthers>>

\* ---- Handler.Handle ----
closeClient(c) ==
    /\ connState' = [connState EXCEPT ![c] = "closed"]
    /\ afterClosed' = afterClosed \cup {c}
    /\ activeConn' = activeConn \ {c}

\* the closing check finds the flag set: the connection is closed, Handle returns
HandleRefuse(c) ==
    /\ hpc[c] = "check"
    /\ closing
    /\ connState' = [connState EXCEPT ![c] = "closed"]
    /\ hpc' = [hpc EXCEPT ![c] = "done"]
    /\ UNCHANGED <<peerVars, parserVars, hcur, handlerVars, traceVars, closeVars, serverVars, sessOthers>>

\* the closing check passes
HandleEnter(c) ==
    /\ hpc[c] = "check"
    /\ ~closing
    /\ hpc' = [hpc EXCEPT ![c] = "register"]
    /\ UNCHANGED <<peerVars, connState, parserVars, hcur, handlerVars, traceVars,
                   closeVars, serverVars, sessOthers>>

\* NewConn, activeConn.Store, ParseStream
HandleRegister(c) ==
    /\ hpc[c] = "register"
    /\ activeConn' = activeConn \cup {c}
    /\ ppc' = [ppc EXCEPT ![c] = "read"]
    /\ hpc' = [hpc EXCEPT ![c] = "recv"]
    /\ UNCHANGED <<peerVars, connState, buf, pst, pitem, hcur, closing, dbClosed,
                   afterClosed, traceVars, closeVars, serverVars, sessOthers>>

IsConnClosedErr(e) ==
    e = ErrEOF \/ e = ErrUnexpectedEOF \/ e.text = "use of closed network connection"

\* the branch of the loop body a payload takes
PayloadKind(p) ==
    IF p.Err # NoErr THEN IF IsConnClosedErr(p.Err) THEN "closed" ELSE "protoerr"
    ELSE IF p.Data = NilReply THEN "skip"
    ELSE IF p.Data.t # "multibulk" THEN "skip"
    ELSE "command"

\* Handle receives the payload parse0 is sending; parse0 goes on, or closes ch
Receive(c, kind) ==
    /\ hpc[c] = "recv"
    /\ ppc[c] \in {"send", "sendlast"}
    /\ PayloadKind(pitem[c][1]) = kind
    /\ ppc' = [ppc EXCEPT ![c] = IF @ = "send" THEN "read" ELSE "closed"]
    /\ pitem' = [pitem EXCEPT ![c] = <<>>]

\* an error that tells the connection is gone: closeClient, return
HandleRecvClosed(c) ==
    /\ Receive(c, "closed")
    /\ closeClient(c)
    /\ hpc' = [hpc EXCEPT ![c] = "done"]
    /\ UNCHANGED <<peerVars, buf, pst, hcur, closing, dbClosed, traceVars, closeVars,
                   serverVars, sessOthers>>

\* any other error: an error reply is to be written
HandleRecvProtoErr(c) ==
    /\ Receive(c, "protoerr")
    /\ hpc' = [hpc EXCEPT ![c] = "werr"]
    /\ hcur' = [hcur EXCEPT ![c] = pitem[c]]
    /\ UNCHANGED <<peerVars, connState, buf, pst, handlerVars, traceVars, closeVars,
                   serverVars, sessOthers>>

\* an empty payload or one that is no multi-bulk: continue
HandleRecvSkip(c) ==
    /\ Receive(c, "skip")
    /\ UNCHANGED <<peerVars, connState, buf, pst, hpc, hcur, handlerVars, traceVars,
                   closeVars, serverVars, sessOthers>>

\* a multi-bulk: a command to execute
HandleRecvCommand(c) ==
    /\ Receive(c, "command")
    /\ hpc' = [hpc EXCEPT ![c] = "exec"]
    /\ hcur' = [hcur EXCEPT ![c] = pitem[c]]
    /\ UNCHANGED <<peerVars, connState, buf, pst, handlerVars, traceVars, closeVars,
                   serverVars, sessOthers>>

\* ch is closed and drained: the loop ends and Handle returns
HandleLoopEnd(c) ==
    /\ hpc[c] = "recv"
    /\ ppc[c] = "closed"
    /\ hpc' = [hpc EXCEPT ![c] = "done"]
    /\ UNCHANGED <<peerVars, connState, parserVars, hcur, handlerVars, traceVars,
                   closeVars, serverVars, sessOthers>>

\* result := h.db.Exec(client, r.Args)
HandleExec(c) ==
    /\ hpc[c] = "exec"
    /\ dispatched' = [dispatched EXCEPT ![c] = Append(@, hcur[c][1].Data.args)]
    /\ hpc' = [hpc EXCEPT ![c] = "write"]
    /\ UNCHANGED <<peerVars, connState, parserVars, hcur, handlerVars, wire, closeVars,
                   serverVars, sessOthers>>

\* client.Write: succeeds on a connection open on both sides, fails on one closed
\* on this side; after the peer closed or reset its end it may do either
WriteMaySucceed(c) == connState[c] = "open"
WriteMayFail(c) == connState[c] = "closed" \/ peer[c] # "open"

\* _ = client.Write(result.ToBytes()), the reply reaches the peer
HandleWriteOk(c) ==
    /\ hpc[c] = "write"
    /\ WriteMaySucceed(c)
    /\ wire' = [wire EXCEPT ![c] = Append(@, Len(dispatched[c]))]
    /\ hpc' = [hpc EXCEPT ![c] = "recv"]
    /\ hcur' = [hcur EXCEPT ![c] = <<>>]
    /\ UNCHANGED <<peerVars, connState, parserVars, handlerVars, dispatched, closeVars,
                   serverVars, sessOthers>>

\* _ = client.Write(result.ToBytes()), the write fails and the error is dropped
HandleWriteFail(c) ==
    /\ hpc[c] = "write"
    /\ WriteMayFail(c)
    /\ hpc' = [hpc EXCEPT ![c] = "recv"]
    /\ hcur' = [hcur EXCEPT ![c] = <<>>]
    /\ UNCHANGED <<peerVars, connState, parserVars, handlerVars, traceVars, closeVars,
                   serverVars, sessOthers>>

\* the error reply is written: continue
HandleWriteErrOk(c) ==
    /\ hpc[c] = "werr"
    /\ WriteMaySucceed(c)
    /\ wire' = [wire EXCEPT ![c] = Append(@, 0)]
    /\ hpc' = [hpc EXCEPT ![c] = "recv"]
    /\ hcur' = [hcur EXCEPT ![c] = <<>>]
    /\ UNCHANGED <<peerVars, connState, parserVars, handlerVars, dispatched, closeVars,
                   serverVars, sessOthers>>

\* writing the error reply fails: closeClient, return
HandleWriteErrFail(c) ==
    /\ hpc[c] = "werr"
    /\ WriteMayFail(c)
    /\ closeClient(c)
    /\ hpc' = [hpc EXCEPT ![c] = "done"]
    /\ hcur' = [hcur EXCEPT ![c] = <<>>]
    /\ UNCHANGED <<peerVars, parserVars, closing, dbClosed, traceVars, closeVars, serverVars, sessOthers>>

\* ---- Handler.Close, called by caller k ----
\* h.closing.Set(true)
CloseBegin(k) ==
    /\ cpc[k] = "idle"
    /\ IF k = "signal" THEN spc = "close" ELSE lpc = "close"
    /\ closing' = TRUE
    /\ cpc' = [cpc EXCEPT ![k] = "set"]
    /\ UNCHANGED <<peerVars, connState, parserVars, hpc, hcur, activeConn, dbClosed,
                   afterClosed, traceVars, csnap, cseen, serverVars, sessOthers>>

\* activeConn.Range begins: the clients stored by now will be visited
CloseRangeBegin(k) ==
    /\ cpc[k] = "set"
    /\ csnap' = [csnap EXCEPT ![k] = activeConn]
    /\ cseen' = [cseen EXCEPT ![k] = {}]
    /\ cpc' = [cpc EXCEPT ![k] = "range"]
    /\ UNCHANGED <<peerVars, connState, parserVars, hpc, hcur, handlerVars, traceVars,
                   serverVars, sessOthers>>

\* Range visits a client: client.Close()
CloseRangeVisit(k, c) ==
    /\ cpc[k] = "range"
    /\ c \in activeConn \ cseen[k]
    /\ connState' = [connState EXCEPT ![c] = "closed"]
    /\ cseen' = [cseen EXCEPT ![k] = @ \cup {c}]
    /\ UNCHANGED <<peerVars, parserVars, hpc, hcur, handlerVars, traceVars, cpc, csnap,
                   serverVars, sessOthers>>

\* Range ends once every client that was there from its beginning has been visited
CloseRangeEnd(k) ==
    /\ cpc[k] = "range"
    /\ (csnap[k] \cap activeConn) \subseteq cseen[k]
    /\ cpc' = [cpc EXCEPT ![k] = "db"]
    /\ UNCHANGED <<peerVars, connState, parserVars, hpc, hcur, handlerVars, traceVars,
                   csnap, cseen, serverVars, sessOthers>>

\* h.db.Close(), return to the caller
CloseDB(k) ==
    /\ cpc[k] = "db"
    /\ dbClosed' = dbClosed + 1
    /\ cpc' = [cpc EXCEPT ![k] = "done"]
    /\ spc' = IF k = "signal" THEN "done" ELSE spc
    /\ lpc' = IF k = "defer" THEN "returned" ELSE lpc
    /\ UNCHANGED <<peerVars, connState, parserVars, hpc, hcur, closing, activeConn,
                   afterClosed, traceVars, csnap, cseen, listener, sessOthers>>

\* ---- ListenAndServe ----
\* closeChan delivers: the goroutine closes the listener and goes on to handler.Close
Signal ==
    /\ spc = "wait"
    /\ listener' = "closed"
    /\ spc' = "close"
    /\ UNCHANGED <<peerVars, connState, parserVars, hpc, hcur, handlerVars, traceVars,
                   closeVars, lpc, sessOthers>>

\* listener.Accept returns an error: the loop breaks
AcceptFails ==
    /\ lpc = "accept"
    /\ listener = "closed"
    /\ lpc' = "wait"
    /\ UNCHANGED <<peerVars, connState, parserVars, hpc, hcur, handlerVars, traceVars,
                   closeVars, listener, spc, sessOthers>>

\* waitDone.Wait returns once every Handle has returned; the deferred function
\* closes the listener and goes on to handler.Close
WaitDone ==
    /\ lpc = "wait"
    /\ \A c \in Conns : hpc[c] \in {"none", "done"}
    /\ listener' = "closed"
    /\ lpc' = "close"
    /\ UNCHANGED <<peerVars, connState, parserVars, hpc, hcur, handlerVars, traceVars,
                   closeVars, spc, sessOthers>>

SessNext ==
    \/ \E c \in Conns : ClientSend(c)
    \/ \E c \in Conns : ClientClose(c)
    \/ \E c \in Conns : ClientReset(c)
    \/ \E c \in Conns : Accept(c)
    \/ \E c \in Conns : ParserRead(c)
    \/ \E c \in Conns : ParserReadError(c)
    \/ \E c \in Conns : HandleRefuse(c)
    \/ \E c \in Conns : HandleEnter(c)
    \/ \E c \in Conns : HandleRegister(c)
    \/ \E c \in Conns : HandleRecvClosed(c)
    \/ \E c \in Conns : HandleRecvProtoErr(c)
    \/ \E c \in Conns : HandleRecvSkip(c)
    \/ \E c \in Conns : HandleRecvCommand(c)
    \/ \E c \in Conns : HandleLoopEnd(c)
    \/ \E c \in Conns : HandleExec(c)
    \/ \E c \in Conns : HandleWriteOk(c)
    \/ \E c \in Conns : HandleWriteFail(c)
    \/ \E c \in Conns : HandleWriteErrOk(c)
    \/ \E c \in Conns : HandleWriteErrFail(c)
    \/ \E k \in Closers : CloseBegin(k)
    \/ \E k \in Closers : CloseRangeBegin(k)
    \/ \E k \in Closers, c \in Conns : CloseRangeVisit(k, c)
    \/ \E k \in Closers : CloseRangeEnd(k)
    \/ \E k \in Closers : CloseDB(k)
    \/ Signal
    \/ AcceptFails
    \/ WaitDone

SpecSession == SessInit /\ [][SessNext]_vars

\* the goroutines of the server are scheduled: a parse0 task, a Handle, a call of
\* Handler.Close and ListenAndServe each take their next step when they can;
\* nothing is assumed of the peers and of the close signal
ParserStep(c) == ParserRead(c) \/ ParserReadError(c)

HandleStep(c) ==
    \/ HandleRefuse(c) \/ HandleEnter(c) \/ HandleRegister(c)
    \/ HandleRecvClosed(c) \/ HandleRecvProtoErr(c) \/ HandleRecvSkip(c)
    \/ HandleRecvCommand(c) \/ HandleLoopEnd(c) \/ HandleExec(c)
    \/ HandleWriteOk(c) \/ HandleWriteFail(c)
    \/ HandleWriteErrOk(c) \/ HandleWriteErrFail(c)

CloseStep(k) ==
    \/ CloseBegin(k) \/ CloseRangeBegin(k) \/ CloseRangeEnd(k) \/ CloseDB(k)
    \/ \E c \in Conns : CloseRangeVisit(k, c)

ServeStep == AcceptFails \/ WaitDone

\* ParserStep(c) is enabled exactly when parse0 is at its read and the read
\* does not block
ParserCanStep(c) == ppc[c] = "read" /\ ReadOf(c).kind # "wait"

\* weak fairness of ParserStep(c), with its enabling condition written out
ParserFair(c) == []<>(~ParserCanStep(c)) \/ []<><<ParserStep(c)>>_vars

SessFairness ==
    /\ \A c \in Conns : ParserFair(c) /\ WF_vars(HandleStep(c))
    /\ \A k \in Closers : WF_vars(CloseStep(k))
    /\ WF_vars(ServeStep)

SpecSessionLive == SessInit /\ [][SessNext]_vars /\ SessFairness

\* ------------------------------------------------------------------------
\* Properties of the parser
\* ------------------------------------------------------------------------
\* the parser has left its loop, through close(ch) or through the recovered panic
ParserDone == pstatus # "run"

\* the items of a stream of well-formed frames fs, then the end of the stream
ItemsOf(fs) == [i \in 1..Len(fs) |-> DataPayload(fs[i])]

EndOfStream == <<ErrPayload(ErrEOF)>>

\* the first frame is a multi-bulk whose every argument has M > 0 bytes
FirstIsFullMultiBulk ==
    /\ frames[1].t = "multibulk"
    /\ \A i \in 1..Len(frames[1].args) : Len(frames[1].args[i]) > 0

\* C7: a multi-bulk message whose every argument is announced as $M (M > 0)
\* and followed by exactly M bytes and CRLF is emitted as one multi-bulk item
\* holding exactly those bytes, whatever the bytes are (a first byte of "$",
\* "*", CR or LF included); the messages after it are emitted as their own items
C7_BinarySafe ==
    (ParserDone /\ FirstIsFullMultiBulk)
        => out = ItemsOf(frames) \o EndOfStream

IsProtocolErrorItem(p) == p.Err # NoErr /\ ~p.Err.io /\ p.Data = NilReply

\* C8: a malformed line (no CRLF at the expected offset, a non-numeric length,
\* a negative length other than -1, a lone LF) makes the parser emit exactly one
\* error item, return to the zero state and keep running: the well-formed
\* messages that follow are emitted as their own items
C8_ProtocolErrorResync ==
    (frames[1].t = "raw" /\ frames[1].bytes \in MalformedChunks) =>
        /\ pstatus # "dead"
        /\ Len(out) >= 1 => IsProtocolErrorItem(out[1])
        /\ (Len(out) = 1 /\ pstatus = "run" /\ ~rstate.readingMultiLine) => rstate = ZeroState
        /\ pstatus = "closed" =>
              /\ Len(out) = Len(frames) + 1
              /\ Tail(out) = ItemsOf(Tail(frames)) \o EndOfStream

\* ParseBytes on the items parse0 sent: the replies before the first error item,
\* an error unless that item is io.EOF
ParseBytesResult(items) ==
    LET errs == {i \in 1..Len(items) : items[i].Err # NoErr}
        k == CHOOSE i \in errs : \A j \in errs : i <= j
    IN  IF errs = {} THEN [results |-> [i \in 1..Len(items) |-> items[i].Data], err |-> NoErr]
        ELSE IF items[k].Err = ErrEOF
        THEN [results |-> [i \in 1..(k - 1) |-> items[i].Data], err |-> NoErr]
        ELSE [results |-> <<>>, err |-> items[k].Err]

\* C9: parsing the bytes of any one reply value R of the taxonomy gives exactly
\* one item, equal to R
C9_RoundTrip ==
    (Len(frames) = 1 /\ frames[1] \in ReplyValues) =>
        /\ pstatus # "dead"
        /\ pstatus = "closed" => ParseBytesResult(out) = [results |-> <<frames[1]>>, err |-> NoErr]

\* every frame of the stream is a well-formed message
AllWellFormed == \A i \in 1..Len(frames) : frames[i].t # "raw"

\* the items sent so far that carry a reply and no error
NonErrorItems == {i \in 1..Len(out) : out[i].Err = NoErr}

\* C18: a byte stream that is the concatenation of n well-formed messages
\* (multi-bulk messages with $0 or $-1 arguments included) produces exactly n
\* non-error items and then the end-of-stream error, never more and never fewer
C18_OneItemPerMessage ==
    AllWellFormed =>
        /\ pstatus # "dead"
        /\ Cardinality(NonErrorItems) <= Len(frames)
        /\ pstatus = "closed" =>
              /\ NonErrorItems = 1..Len(frames)
              /\ Len(out) = Len(frames) + 1
              /\ out[Len(out)] = ErrPayload(ErrEOF)

\* C19: inside a multi-bulk message, when the line that should be the next $M
\* header does not start with "$", the parser emits a protocol error instead
\* of a command, and the well-formed messages that follow are emitted as their
\* own items
C19_HeaderRequired ==
    (frames[1].t = "raw" /\ frames[1].bytes \in HeaderlessChunks) =>
        /\ pstatus # "dead"
        /\ Len(out) >= 1 => IsProtocolErrorItem(out[1])
        /\ pstatus = "closed" => Tail(out) = ItemsOf(Tail(frames)) \o EndOfStream

\* ------------------------------------------------------------------------
\* Per-key linearizability
\* ------------------------------------------------------------------------
TouchedKeys(c) == prepare(c).write \cup prepare(c).read

\* what the two connections observe: the keyspace, the TTLs and the two replies
Outcome == [data |-> data, ttlMap |-> ttlMap, r1 |-> res[1], r2 |-> res[2]]

\* the outcome of running the command of connection first whole, then the other's
SeqOutcome(first) ==
    LET second == 3 - first
        x == ExecCmd(db0, cmd[first], now)
        y == ExecCmd(x.db, cmd[second], now)
    IN  [data |-> y.db.data, ttlMap |-> y.db.ttlMap,
         r1 |-> IF first = 1 THEN x.reply ELSE y.reply,
         r2 |-> IF first = 1 THEN y.reply ELSE x.reply]

\* C6: when two commands from different connections touch a common key, the final
\* keyspace, TTLs and both replies are those of one of the two sequential orders
C6_Linearizable ==
    (/\ \A c \in Clients : pc[c] = "done"
     /\ TouchedKeys(cmd[1]) \cap TouchedKeys(cmd[2]) # {}) =>
        (Outcome = SeqOutcome(1) \/ Outcome = SeqOutcome(2))

\* ------------------------------------------------------------------------
\* Order of commands and replies within a session
\* ------------------------------------------------------------------------
\* the argument lists of the commands among the messages fs, in order
RECURSIVE CommandsOf(_)
CommandsOf(fs) ==
    IF fs = <<>> THEN <<>>
    ELSE IF Head(fs).t = "multibulk" THEN <<Head(fs).args>> \o CommandsOf(Tail(fs))
    ELSE CommandsOf(Tail(fs))

IsPrefix(s1, s2) == Len(s1) <= Len(s2) /\ SubSeq(s2, 1, Len(s1)) = s1

\* the replies to commands among what was written to the peer of c
RepliesOn(c) == SelectSeq(wire[c], LAMBDA n : n > 0)

\* C10: within a connection the commands are dispatched in the order they
\* arrived, the replies are written in that order, and command n+1 is not
\* dispatched before the reply to command n has been written
C10_InOrder ==
    \A c \in Conns :
        /\ IsPrefix(dispatched[c], CommandsOf(sent[c]))
        /\ \A i, j \in 1..Len(RepliesOn(c)) : i < j => RepliesOn(c)[i] < RepliesOn(c)[j]
        /\ \A n \in 1..(Len(dispatched[c]) - 1) : \E i \in 1..Len(wire[c]) : wire[c][i] = n

\* ------------------------------------------------------------------------
\* How a session ends
\* ------------------------------------------------------------------------
\* parse0 of connection c met an I/O error: it sends the error and closes ch
StreamFailed(c) == ppc[c] \in {"sendlast", "closed"}

\* the session of c is closed: the connection is closed, AfterClientClose has
\* run and the client is out of the active-connection set
SessionClosed(c) ==
    /\ connState[c] = "closed"
    /\ c \in afterClosed
    /\ c \notin activeConn

\* C11: when the stream of a session met an I/O error, whatever the error, and
\* Handle has returned, the session is closed
C11_IOErrorClosesSession ==
    \A c \in Conns : (hpc[c] = "done" /\ StreamFailed(c)) => SessionClosed(c)

\* the commands of c whose reply was not written although the write was made
FailedReplies(c) ==
    {n \in 1..Len(dispatched[c]) :
        /\ ~(n = Len(dispatched[c]) /\ hpc[c] = "write")
        /\ \A i \in 1..Len(wire[c]) : wire[c][i] # n}

\* C12: a failed write of a command's reply is fatal to the session: Handle
\* returns with the session closed and dispatches no further command
C12_WriteFailureIsFatal ==
    \A c \in Conns :
        \A n \in FailedReplies(c) :
            /\ hpc[c] = "done"
            /\ SessionClosed(c)
            /\ Len(dispatched[c]) = n

\* ------------------------------------------------------------------------
\* Shutdown
\* ------------------------------------------------------------------------
\* a call of Handler.Close has returned
CloseReturned == \E k \in Closers : cpc[k] = "done"

\* Handle of connection c has passed its closing check
PassedCheck(c) == hpc[c] \notin {"none", "check"}

\* C13: once Handler.Close has returned, every connection whose Handle got past
\* the closing check is closed, also when Close ran between that check and the
\* registration of the client
C13_CloseClosesEverySession ==
    CloseReturned => \A c \in Conns : PassedCheck(c) => connState[c] = "closed"

\* a step that invokes the dispatcher for some connection
Dispatches == \E c \in Conns : Len(dispatched'[c]) > Len(dispatched[c])

\* C14: the backend is closed only after the dispatches in flight are over: no
\* dispatcher call runs once db.Close has run, and ListenAndServe returns only
\* when every Handle has returned
C14_CloseAwaitsDispatches ==
    /\ [][Dispatches => dbClosed = 0]_vars
    /\ [](lpc = "returned" => \A c \in Conns : hpc[c] \in {"none", "done"})

\* C20: once the closing flag is set no command is dispatched any more, be it
\* of a connection handed to Handle afterwards or of a session already open
C20_ClosingRefusesRequests ==
    [][Dispatches => ~closing]_vars

\* ------------------------------------------------------------------------
\* Termination of the tasks of a session
\* ------------------------------------------------------------------------
\* nothing more will come from the peer of c: its end is closed or broken, or
\* the server closed the connection
StreamOver(c) == peer[c] \in {"eof", "reset"} \/ connState[c] = "closed"

HandleReturned(c) == hpc[c] = "done"

ParserStopped(c) == ppc[c] = "dead"

\* C22: once the stream of a client is at its end or closed, the parser
\* eventually sends a final error item and closes the channel, so Handle
\* eventually returns and, after the close signal, ListenAndServe eventually
\* returns; the parser task never stops without closing the channel
C22_SessionLiveness ==
    /\ [](\A c \in Conns : ~ParserStopped(c))
    /\ \A c \in Conns :
          (StreamOver(c) /\ ppc[c] # "none") ~> (ppc[c] = "closed" \/ HandleReturned(c))
    /\ \A c \in Conns :
          (StreamOver(c) /\ hpc[c] # "none") ~> HandleReturned(c)
    /\ (spc # "wait" /\ \A c \in Conns : hpc[c] # "none" => StreamOver(c))
          ~> (lpc = "returned")

\* the parse0 task of c has ended (or was never started)
ParserEnded(c) == ppc[c] \in {"none", "closed", "dead"}

\* parse0 is at a send on ch
ParserSending(c) == ppc[c] \in {"send", "sendlast"}

\* C23: on every path by which Handle returns, the parser task of the
\* connection eventually ends; it is never left at a send on the channel that
\* nobody receives from any more
C23_ParserEndsWithSession ==
    /\ [](\A c \in Conns : HandleReturned(c) => ~ParserSending(c))
    /\ \A c \in Conns : HandleReturned(c) ~> ParserEnded(c)

\* ------------------------------------------------------------------------
\* How often shutdown closes the backend
\* ------------------------------------------------------------------------
\* the calls of Handler.Close that have begun
CloseCalls == {k \in Closers : cpc[k] # "idle"}

\* C24: in one run of ListenAndServe ended by the close signal, Handler.Close,
\* and with it the Close of the keyspace backend, is executed exactly once
C24_CloseOnce ==
    /\ Cardinality(CloseCalls) <= 1
    /\ dbClosed <= 1
    /\ lpc = "returned" => dbClosed = 1

====
